---- MODULE Spec2Model ----
(***************************************************************************)
(* Model of the sunset scoring core of the SunsetCard component            *)
(* (frontend/src/components/SunsetCard.tsx): toFiniteNumber,               *)
(* calculateSunsetScore and clampScore; of the component's forecast,       *)
(* metrics and toast effects and its generate and save handlers; of the    *)
(* API base URL and of doFetch (frontend/src/lib/api.ts); and of the       *)
(* allowed CORS origins of the API                                         *)
(* (infra/cdk/lib/sunset-forecast-stack.ts).                               *)
(*                                                                         *)
(* JavaScript values are tagged records [t, v].  A finite number is        *)
(* [t |-> "number", v |-> n] where n is the value in hundredths (fixed     *)
(* point, 84.5 is 8450); NaN, Infinity and -Infinity are their own tags,   *)
(* as are undefined and null.  The readings the model feeds to             *)
(* calculateSunsetScore are multiples of 0.1, for which the products by    *)
(* 0.7, 0.5 and 2 are exact in hundredths.                                 *)
(***************************************************************************)
EXTENDS Integers, FiniteSets, Sequences, TLC

VARIABLES pc, frame, predicted, clouds, humidity, pm,
          cloudTerm, humidityTerm, pmTerm, value, result, threw,
          phase, viteApiUrl, baseUrl, forecast, sunsetScore, forecastError,
          loadingForecast, runs,
          coords, score, sunsetTime, metrics, loadingMetrics, metricsRuns,
          toast, toastTimers,
          loadingImage, previewUrl, resp, lastGeneratedAt, generateCall, payload, saving,
          corsPc, myDomainName, frontendOrigin, resolvedAllowedOrigins,
          fetchPc, options, timeoutId, aborted, elapsed, httpResponse, outcome

\* the call in progress of calculateSunsetScore / clampScore
scoreVars == <<pc, frame, predicted, clouds, humidity, pm,
               cloudTerm, humidityTerm, pmTerm, value, result, threw>>

\* SunsetCard: the state written by the forecast effect and the effect's runs
forecastVars == <<forecast, sunsetScore, forecastError, loadingForecast, runs>>

\* SunsetCard: the state written by the metrics effect and the effect's runs
metricsVars == <<coords, score, sunsetTime, metrics, loadingMetrics, metricsRuns>>

\* SunsetCard: the toast and the timers of the toast effect
toastVars == <<toast, toastTimers>>

\* SunsetCard: the state written by handleGenerate, its generateCard call in
\* flight, and the downloads of handleSaveImage in flight
generateVars == <<loadingImage, previewUrl, resp, lastGeneratedAt, generateCall, payload,
                  saving>>

\* the api.ts module and the SunsetCard component
cardVars == <<phase, viteApiUrl, baseUrl, forecastVars, metricsVars, toastVars, generateVars>>

\* the constructor of SunsetForecastStack
corsVars == <<corsPc, myDomainName, frontendOrigin, resolvedAllowedOrigins>>

\* one call of doFetch
fetchVars == <<fetchPc, options, timeoutId, aborted, elapsed, httpResponse, outcome>>

vars == <<scoreVars, cardVars, corsVars, fetchVars>>

(***************************************************************************)
(* JavaScript values                                                       *)
(***************************************************************************)
Undefined == [t |-> "undefined", v |-> 0]

Null == [t |-> "null", v |-> 0]

NaN == [t |-> "NaN", v |-> 0]

PosInf == [t |-> "Infinity", v |-> 0]

NegInf == [t |-> "-Infinity", v |-> 0]

\* a finite number, n in hundredths
Num(n) == [t |-> "number", v |-> n]

\* a whole number of units as a finite number
Whole(n) == Num(n * 100)

\* typeof x === "number"
TypeofNumber(x) == x.t \in {"number", "NaN", "Infinity", "-Infinity"}

\* Number.isFinite(x): no coercion, false for every non-number
NumberIsFinite(x) == x.t = "number"

\* ToNumber coercion applied by arithmetic operators and Math functions
ToNumber(x) ==
    CASE x.t = "undefined" -> NaN
      [] x.t = "null" -> Num(0)
      [] x.t \in {"string", "object"} -> NaN
      [] OTHER -> x

\* unary minus
JsNeg(x) ==
    LET a == ToNumber(x) IN
    CASE a.t = "number" -> Num(0 - a.v)
      [] a.t = "Infinity" -> NegInf
      [] a.t = "-Infinity" -> PosInf
      [] OTHER -> NaN

\* a + b on numbers
JsAdd(x, y) ==
    LET a == ToNumber(x)
        b == ToNumber(y) IN
    CASE a.t = "NaN" \/ b.t = "NaN" -> NaN
      [] a.t = "number" /\ b.t = "number" -> Num(a.v + b.v)
      [] a.t = "number" -> b
      [] b.t = "number" -> a
      [] a.t = b.t -> a
      [] OTHER -> NaN

\* a - b
JsSub(x, y) == JsAdd(x, JsNeg(y))

\* sign of a non-NaN number: -1, 0 or 1
SignOf(a) ==
    CASE a.t = "Infinity" -> 1
      [] a.t = "-Infinity" -> 0 - 1
      [] a.v > 0 -> 1
      [] a.v < 0 -> 0 - 1
      [] OTHER -> 0

\* a * b; the product of two fixed-point numbers is rescaled to hundredths
JsMul(x, y) ==
    LET a == ToNumber(x)
        b == ToNumber(y) IN
    CASE a.t = "NaN" \/ b.t = "NaN" -> NaN
      [] a.t = "number" /\ b.t = "number" -> Num((a.v * b.v) \div 100)
      [] SignOf(a) * SignOf(b) = 0 -> NaN
      [] SignOf(a) * SignOf(b) > 0 -> PosInf
      [] OTHER -> NegInf

\* Math.abs
MathAbs(x) ==
    LET a == ToNumber(x) IN
    CASE a.t = "number" -> Num(IF a.v < 0 THEN 0 - a.v ELSE a.v)
      [] a.t = "NaN" -> NaN
      [] OTHER -> PosInf

\* a < b for non-NaN numbers
JsLess(a, b) ==
    CASE a.t = "number" /\ b.t = "number" -> a.v < b.v
      [] a.t = "-Infinity" -> b.t # "-Infinity"
      [] b.t = "Infinity" -> a.t # "Infinity"
      [] OTHER -> FALSE

\* Math.max of two arguments: NaN if either is NaN
MathMax(x, y) ==
    LET a == ToNumber(x)
        b == ToNumber(y) IN
    IF a.t = "NaN" \/ b.t = "NaN" THEN NaN
    ELSE IF JsLess(a, b) THEN b ELSE a

\* Math.min of two arguments: NaN if either is NaN
MathMin(x, y) ==
    LET a == ToNumber(x)
        b == ToNumber(y) IN
    IF a.t = "NaN" \/ b.t = "NaN" THEN NaN
    ELSE IF JsLess(b, a) THEN b ELSE a

\* Math.round: nearest integer, a tie goes to the larger integer
MathRound(x) ==
    LET a == ToNumber(x) IN
    IF a.t = "number" THEN Num(((a.v + 50) \div 100) * 100) ELSE a

(***************************************************************************)
(* The scoring functions                                                   *)
(***************************************************************************)
cloudFallback == 60

humidityFallback == 65

pmFallback == 12

baseline == 15

\* faulty variant of toFiniteNumber: value ?? fallback, which lets NaN and the
\* infinities through
toFiniteNumber_nullish(val, fallback) ==
    IF val.t \in {"undefined", "null"} THEN fallback ELSE val

\* faulty variant of toFiniteNumber: a finite value is clamped into [0, 100]
toFiniteNumber_clamped(val, fallback) ==
    IF TypeofNumber(val) /\ NumberIsFinite(val)
    THEN MathMax(Num(0), MathMin(Whole(100), val))
    ELSE fallback

\* function toFiniteNumber(value, fallback)
toFiniteNumber(val, fallback) ==
    IF TypeofNumber(val) /\ NumberIsFinite(val) THEN val ELSE fallback

\* Math.floor
MathFloor(x) ==
    LET a == ToNumber(x) IN
    IF a.t = "number" THEN Num((a.v \div 100) * 100) ELSE a

\* faulty variant of clampScore: the Math.round is missing
clampScore_noRound(val) ==
    IF ~NumberIsFinite(val) THEN Num(0)
    ELSE MathMax(Num(0), MathMin(Whole(100), val))

\* faulty variant of clampScore: Math.floor in place of Math.round
clampScore_floor(val) ==
    IF ~NumberIsFinite(val) THEN Num(0)
    ELSE MathMax(Num(0), MathMin(Whole(100), MathFloor(val)))

\* faulty variant of clampScore: the Number.isFinite guard is missing
clampScore_noGuard(val) ==
    MathMax(Num(0), MathMin(Whole(100), MathRound(val)))

\* round to the nearest integer, a tie going to the even integer
MathRoundHalfEven(x) ==
    LET a == ToNumber(x) IN
    IF a.t # "number" THEN a
    ELSE IF a.v % 100 = 50 /\ (a.v \div 100) % 2 = 0
         THEN Num((a.v \div 100) * 100)
         ELSE Num(((a.v + 50) \div 100) * 100)

\* faulty variant of clampScore: ties are rounded to the even integer
clampScore_halfEven(val) ==
    IF ~NumberIsFinite(val) THEN Num(0)
    ELSE MathMax(Num(0), MathMin(Whole(100), MathRoundHalfEven(val)))

\* function clampScore(value)
clampScore(val) ==
    IF ~NumberIsFinite(val) THEN Num(0)
    ELSE MathMax(Num(0), MathMin(Whole(100), MathRound(val)))

\* faulty variant of the guard: the reading is never taken to be absent
notPredicted_never(p) == FALSE

\* !predicted
notPredicted(p) == p.t \in {"undefined", "null"}

\* faulty variant of the cloud term: the Math.abs is missing
cloudTermOf_noAbs(c) ==
    MathMax(Num(0), JsSub(Whole(35), JsMul(JsSub(Whole(45), c), Num(70))))

\* faulty variant of the cloud term: the penalty is added instead of subtracted
cloudTermOf_plus(c) ==
    MathMax(Num(0), JsAdd(Whole(35), JsMul(MathAbs(JsSub(Whole(45), c)), Num(70))))

\* faulty variant of the cloud term: the outer Math.max(0, .) is missing
cloudTermOf_noFloor(c) ==
    JsSub(Whole(35), JsMul(MathAbs(JsSub(Whole(45), c)), Num(70)))

\* const cloudTerm = Math.max(0, 35 - Math.abs(45 - clouds) * 0.7)
cloudTermOf(c) ==
    MathMax(Num(0), JsSub(Whole(35), JsMul(MathAbs(JsSub(Whole(45), c)), Num(70))))

\* faulty variant of the humidity term: the inner Math.max(0, .) is missing
humidityTermOf_noInnerMax(h) ==
    MathMax(Num(0), JsSub(Whole(20), JsMul(JsSub(h, Whole(55)), Num(50))))

\* faulty variant of the humidity term: the penalty is added instead of subtracted
humidityTermOf_plus(h) ==
    MathMax(Num(0), JsAdd(Whole(20), JsMul(MathMax(Num(0), JsSub(h, Whole(55))), Num(50))))

\* faulty variant of the humidity term: the outer Math.max(0, .) is missing
humidityTermOf_noFloor(h) ==
    JsSub(Whole(20), JsMul(MathMax(Num(0), JsSub(h, Whole(55))), Num(50)))

\* const humidityTerm = Math.max(0, 20 - Math.max(0, humidity - 55) * 0.5)
humidityTermOf(h) ==
    MathMax(Num(0), JsSub(Whole(20), JsMul(MathMax(Num(0), JsSub(h, Whole(55))), Num(50))))

\* faulty variant of the PM2.5 term: the outer Math.max(0, .) is missing
pmTermOf_noFloor(p) ==
    JsSub(Whole(30), JsMul(MathMax(Num(0), JsSub(p, Whole(12))), Whole(2)))

\* faulty variant of the PM2.5 term: the inner Math.max(0, .) is missing
pmTermOf_noInnerMax(p) ==
    MathMax(Num(0), JsSub(Whole(30), JsMul(JsSub(p, Whole(12)), Whole(2))))

\* const pmTerm = Math.max(0, 30 - Math.max(0, pm - 12) * 2)
pmTermOf(p) ==
    MathMax(Num(0), JsSub(Whole(30), JsMul(MathMax(Num(0), JsSub(p, Whole(12))), Whole(2))))

\* faulty variant of the sum: the baseline is missing
rawScoreOf_noBaseline(ct, ht, pt) == JsAdd(JsAdd(ct, ht), pt)

\* cloudTerm + humidityTerm + pmTerm + baseline
rawScoreOf(ct, ht, pt) == JsAdd(JsAdd(JsAdd(ct, ht), pt), Whole(baseline))

\* function calculateSunsetScore(predicted), as one expression
calculateSunsetScore(p) ==
    IF notPredicted(p) THEN Null
    ELSE clampScore(rawScoreOf(
             cloudTermOf(toFiniteNumber(p.cloudCover_pct, Whole(cloudFallback))),
             humidityTermOf(toFiniteNumber(p.humidity_pct, Whole(humidityFallback))),
             pmTermOf(toFiniteNumber(p.pm25_ugm3, Whole(pmFallback)))))

(***************************************************************************)
(* Inputs                                                                  *)
(***************************************************************************)
MaxBelowZero == 2

MaxCloudGrid == 24

MaxHumidityGrid == 12

MaxPmGrid == 8

MaxClampTenths == 1100

\* values a field of the reading has when it carries no usable number
Unusable == {Undefined, Null, NaN, PosInf, NegInf}

CloudInputs ==
    Unusable
    \cup {Num(k * 500) : k \in (0 - MaxBelowZero)..MaxCloudGrid}
    \cup {Num(4200), Num(4490), Num(4510), Num(100000), Num(0 - 100000), Num(10000000)}

HumidityInputs ==
    Unusable
    \cup {Num(k * 1000) : k \in (0 - MaxBelowZero)..MaxHumidityGrid}
    \cup {Num(5500), Num(5510), Num(6500), Num(6800), Num(9490), Num(9500),
          Num(100000), Num(0 - 100000)}

PmInputs ==
    Unusable
    \cup {Num(k * 500) : k \in (0 - MaxBelowZero)..MaxPmGrid}
    \cup {Num(740), Num(1200), Num(1210), Num(1250), Num(2690), Num(2700),
          Num(10000), Num(100000)}

\* a forecast reading object (SunsetForecastResponse["predicted"])
Reading(c, h, p) ==
    [t |-> "object", v |-> 0, cloudCover_pct |-> c, humidity_pct |-> h, pm25_ugm3 |-> p]

\* what the caller may pass as predicted: a reading, or nothing
PredictedInputs ==
    {Reading(c, h, p) : c \in CloudInputs, h \in HumidityInputs, p \in PmInputs}

\* arguments of a direct call of clampScore
ClampInputs ==
    {NaN, PosInf, NegInf}
    \cup {Num(k * 10) : k \in (0 - 10 * MaxBelowZero)..MaxClampTenths}
    \cup {Num(8449), Num(8451), Num(10049), Num(10051), Num(25000), Num(0 - 300),
          Num(0 - 51), Num(0 - 49), Num(100000000), Num(0 - 100000000)}

(***************************************************************************)
(* The calls, statement by statement                                       *)
(***************************************************************************)
\* no call of the scoring functions is in progress
NoCall ==
    /\ pc = "idle"
    /\ frame = "none"
    /\ predicted = Undefined
    /\ clouds = Undefined
    /\ humidity = Undefined
    /\ pm = Undefined
    /\ cloudTerm = Undefined
    /\ humidityTerm = Undefined
    /\ pmTerm = Undefined
    /\ value = Undefined
    /\ result = Undefined
    /\ threw = FALSE

\* a JavaScript string: s is its text as a sequence of symbols
Str(s) == [t |-> "string", v |-> 0, s |-> s]

\* x is undefined or null: what ?? and ?. skip
Nullish(x) == x.t \in {"undefined", "null"}

\* a ?? b
Coalesce(a, b) == IF Nullish(a) THEN b ELSE a

\* useState<Metrics>({ weather: ..., clouds: 0, humidity: 0, pm25: null })
InitialMetrics ==
    [weather |-> Str(<<"loading">>), clouds |-> Num(0), humidity |-> Num(0), pm25 |-> Null]

\* encodeURI(uiSamples[0]), the sample image shown before a card is generated
DEFAULT_IMAGE == Str(<<"uiSamples[0]">>)

\* the useState initial values of the state written by the metrics effect
NoMetrics ==
    /\ coords = "DEFAULT_COORDS"
    /\ score = Whole(50)
    /\ sunsetTime = Str(<<"--:--">>)
    /\ metrics = InitialMetrics
    /\ loadingMetrics = FALSE
    /\ metricsRuns = <<>>

\* no toast is shown and no timer is armed
NoToast ==
    /\ toast = Null
    /\ toastTimers = {}

\* the useState initial values of the state written by handleGenerate
NoGenerate ==
    /\ loadingImage = FALSE
    /\ previewUrl = DEFAULT_IMAGE
    /\ resp = Null
    /\ lastGeneratedAt = Null
    /\ generateCall = "none"
    /\ payload = Undefined
    /\ saving = 0

\* the api.ts module is not loaded and no component exists
NoCard ==
    /\ NoMetrics
    /\ NoToast
    /\ NoGenerate
    /\ phase = "unloaded"
    /\ viteApiUrl = [set |-> FALSE, s |-> <<>>]
    /\ baseUrl = <<>>
    /\ forecast = Null
    /\ sunsetScore = Null
    /\ forecastError = Null
    /\ loadingForecast = FALSE
    /\ runs = <<>>

\* no stack is being constructed
NoStack ==
    /\ corsPc = "idle"
    /\ myDomainName = <<>>
    /\ frontendOrigin = [set |-> FALSE, s |-> <<>>]
    /\ resolvedAllowedOrigins = <<>>

\* no call of doFetch is in progress
NoFetch ==
    /\ fetchPc = "idle"
    /\ options = Undefined
    /\ timeoutId = "none"
    /\ aborted = FALSE
    /\ elapsed = 0
    /\ httpResponse = Undefined
    /\ outcome = Undefined

Init == NoCall /\ NoCard /\ NoStack /\ NoFetch

\* a caller invokes calculateSunsetScore(p)
CallCalculate ==
    /\ pc = "idle"
    /\ \E p \in PredictedInputs \cup {Undefined, Null} : predicted' = p
    /\ frame' = "calculateSunsetScore"
    /\ pc' = "calc_entry"
    /\ UNCHANGED <<clouds, humidity, pm, cloudTerm, humidityTerm, pmTerm, value, result, threw>>
    /\ UNCHANGED <<cardVars, corsVars, fetchVars>>

\* if (!predicted) return null;
ReturnNull ==
    /\ pc = "calc_entry"
    /\ notPredicted(predicted)
    /\ result' = Null
    /\ pc' = "returned"
    /\ UNCHANGED <<frame, predicted, clouds, humidity, pm, cloudTerm, humidityTerm, pmTerm,
                   value, threw>>
    /\ UNCHANGED <<cardVars, corsVars, fetchVars>>

\* the three toFiniteNumber calls; reading a property of undefined or null throws
Normalize ==
    /\ pc = "calc_entry"
    /\ ~notPredicted(predicted)
    /\ IF predicted.t \in {"undefined", "null"}
       THEN /\ threw' = TRUE
            /\ pc' = "returned"
            /\ UNCHANGED <<clouds, humidity, pm>>
       ELSE /\ clouds' = toFiniteNumber(predicted.cloudCover_pct, Whole(cloudFallback))
            /\ humidity' = toFiniteNumber(predicted.humidity_pct, Whole(humidityFallback))
            /\ pm' = toFiniteNumber(predicted.pm25_ugm3, Whole(pmFallback))
            /\ pc' = "calc_terms"
            /\ UNCHANGED threw
    /\ UNCHANGED <<frame, predicted, cloudTerm, humidityTerm, pmTerm, value, result>>
    /\ UNCHANGED <<cardVars, corsVars, fetchVars>>

\* the three terms
Terms ==
    /\ pc = "calc_terms"
    /\ cloudTerm' = cloudTermOf(clouds)
    /\ humidityTerm' = humidityTermOf(humidity)
    /\ pmTerm' = pmTermOf(pm)
    /\ pc' = "calc_sum"
    /\ UNCHANGED <<frame, predicted, clouds, humidity, pm, value, result, threw>>
    /\ UNCHANGED <<cardVars, corsVars, fetchVars>>

\* the argument of clampScore(cloudTerm + humidityTerm + pmTerm + baseline)
Sum ==
    /\ pc = "calc_sum"
    /\ value' = rawScoreOf(cloudTerm, humidityTerm, pmTerm)
    /\ pc' = "clamp"
    /\ UNCHANGED <<frame, predicted, clouds, humidity, pm, cloudTerm, humidityTerm, pmTerm,
                   result, threw>>
    /\ UNCHANGED <<cardVars, corsVars, fetchVars>>

\* a caller invokes clampScore(v) directly (the render of displayScore)
CallClamp ==
    /\ pc = "idle"
    /\ \E v \in ClampInputs : value' = v
    /\ frame' = "clampScore"
    /\ pc' = "clamp"
    /\ UNCHANGED <<predicted, clouds, humidity, pm, cloudTerm, humidityTerm, pmTerm,
                   result, threw>>
    /\ UNCHANGED <<cardVars, corsVars, fetchVars>>

\* the body of clampScore; its result is the result of the call in progress
Clamp ==
    /\ pc = "clamp"
    /\ result' = clampScore(value)
    /\ pc' = "returned"
    /\ UNCHANGED <<frame, predicted, clouds, humidity, pm, cloudTerm, humidityTerm, pmTerm,
                   value, threw>>
    /\ UNCHANGED <<cardVars, corsVars, fetchVars>>

\* the call is over; its locals are gone
Return ==
    /\ pc = "returned"
    /\ pc' = "idle"
    /\ frame' = "none"
    /\ predicted' = Undefined
    /\ clouds' = Undefined
    /\ humidity' = Undefined
    /\ pm' = Undefined
    /\ cloudTerm' = Undefined
    /\ humidityTerm' = Undefined
    /\ pmTerm' = Undefined
    /\ value' = Undefined
    /\ result' = Undefined
    /\ threw' = FALSE
    /\ UNCHANGED <<cardVars, corsVars, fetchVars>>

Next ==
    \/ CallCalculate
    \/ ReturnNull
    \/ Normalize
    \/ Terms
    \/ Sum
    \/ CallClamp
    \/ Clamp
    \/ Return

Spec == Init /\ [][Next]_vars

(***************************************************************************)
(* Strings.  A string is a sequence of symbols; a symbol is one character  *)
(* (" ", "/", ",") or a run of text without any of these.                  *)
(***************************************************************************)
\* the strings over the alphabet A of length at most n
StringsUpTo(A, n) == UNION {[1..k -> A] : k \in 0..n}

\* s without its first symbol
Rest(s) == SubSeq(s, 2, Len(s))

\* s without its last symbol
Front(s) == SubSeq(s, 1, Len(s) - 1)

RECURSIVE TrimStart(_)
\* s without leading whitespace
TrimStart(s) == IF s # <<>> /\ Head(s) = " " THEN TrimStart(Rest(s)) ELSE s

RECURSIVE TrimEnd(_)
\* s without trailing whitespace
TrimEnd(s) == IF s # <<>> /\ s[Len(s)] = " " THEN TrimEnd(Front(s)) ELSE s

\* String.prototype.trim
Trim(s) == TrimEnd(TrimStart(s))

\* s.replace(/\/$/, ""): one trailing slash is removed
StripTrailingSlash(s) == IF s # <<>> /\ s[Len(s)] = "/" THEN Front(s) ELSE s

(***************************************************************************)
(* frontend/src/lib/api.ts                                                 *)
(***************************************************************************)
DEFAULT_API_BASE == <<"https://3s9sgxfexe.execute-api.us-east-1.amazonaws.com/prod">>

\* (import.meta.env.VITE_API_URL ?? "").trim()
RAW_BASE(env) == Trim(IF env.set THEN env.s ELSE <<>>)

\* (RAW_BASE || DEFAULT_API_BASE).replace(/\/$/, "")
BASE(env) ==
    StripTrailingSlash(IF RAW_BASE(env) # <<>> THEN RAW_BASE(env) ELSE DEFAULT_API_BASE)

MaxEnvLen == 3

\* values of import.meta.env.VITE_API_URL: unset, or a string
EnvInputs ==
    {[set |-> FALSE, s |-> <<>>]}
    \cup {[set |-> TRUE, s |-> x] : x \in StringsUpTo({" ", "/", "api.example"}, MaxEnvLen)}

(***************************************************************************)
(* api.ts: doFetch                                                         *)
(***************************************************************************)
TIMEOUT_MS == 15000

\* the step by which the model lets time pass, in ms
TickMs == 5000

\* the message of the error thrown for an aborted request
MSG_TIMEOUT == <<"request timed out (15 s)">>

\* options.timeoutMs of a call: absent, or a number of ms
TimeoutInputs == {Undefined, Whole(0), Whole(5000)}

\* const timeout = options.timeoutMs ?? TIMEOUT_MS, in ms
timeoutOf(opts) == IF Nullish(opts.timeoutMs) THEN TIMEOUT_MS ELSE opts.timeoutMs.v \div 100

\* statuses of a response
StatusInputs == {200, 404, 500}

\* response.ok
IsOk(status) == 200 <= status /\ status <= 299

\* texts of a response body: empty, JSON with and without a message member,
\* the JSON null, or no JSON at all
BodyTexts == {"", "{}", "{message}", "null", "<html>"}

\* JSON.parse(text): the value, or nothing when it throws a SyntaxError
JSONparse(text) ==
    CASE text = "{}" -> [threw |-> FALSE, data |-> [t |-> "object", v |-> 0, message |-> Undefined]]
      [] text = "{message}" ->
            [threw |-> FALSE, data |-> [t |-> "object", v |-> 0, message |-> Str(<<"quota">>)]]
      [] text = "null" -> [threw |-> FALSE, data |-> Null]
      [] OTHER -> [threw |-> TRUE, data |-> Undefined]

\* the promise of the call is rejected with an Error of this message
Rejected(message) == [kind |-> "rejected", message |-> message, data |-> Undefined]

\* the promise of the call is resolved with this value
Resolved(data) == [kind |-> "resolved", message |-> <<>>, data |-> data]

\* (data as any)?.message || `Request failed (${response.status})`
failureMessage(data, status) ==
    IF Nullish(data) \/ Nullish(data.message) \/ data.message.s = <<>>
    THEN <<"Request failed", ToString(status)>>
    ELSE data.message.s

\* the statements after await response.text(): parse, check the status, return
settleWith(text, status) ==
    IF text # "" /\ JSONparse(text).threw THEN Rejected(<<"SyntaxError">>)
    ELSE LET data == IF text = "" THEN Null ELSE JSONparse(text).data
         IN IF ~IsOk(status) THEN Rejected(failureMessage(data, status))
            ELSE Resolved(data)

\* faulty variant of the finally block: the timer is left as it is
clearTimeout_none(timer) == timer

\* clearTimeout(timeoutId): an armed timer is cleared, a fired one stays fired
clearTimeout(timer) == IF timer = "armed" THEN "cleared" ELSE timer

InitFetch ==
    /\ NoCall
    /\ NoCard
    /\ NoStack
    /\ NoFetch

\* doFetch is called: the controller and the timer are created and fetch is
\* started
CallDoFetch ==
    /\ fetchPc = "idle"
    /\ \E ms \in TimeoutInputs : options' = [t |-> "object", v |-> 0, timeoutMs |-> ms]
    /\ timeoutId' = "armed"
    /\ aborted' = FALSE
    /\ elapsed' = 0
    /\ httpResponse' = Undefined
    /\ outcome' = Undefined
    /\ fetchPc' = "fetching"
    /\ UNCHANGED <<scoreVars, cardVars, corsVars>>

\* time passes while the call is in flight, up to the instant of the timer
Tick ==
    /\ fetchPc \in {"fetching", "reading"}
    /\ elapsed < timeoutOf(options)
    /\ elapsed' = IF elapsed + TickMs > timeoutOf(options) THEN timeoutOf(options)
                  ELSE elapsed + TickMs
    /\ UNCHANGED <<fetchPc, options, timeoutId, aborted, httpResponse, outcome>>
    /\ UNCHANGED <<scoreVars, cardVars, corsVars>>

\* the timer fires: controller.abort()
TimerFires ==
    /\ timeoutId = "armed"
    /\ elapsed >= timeoutOf(options)
    /\ timeoutId' = "fired"
    /\ aborted' = TRUE
    /\ UNCHANGED <<fetchPc, options, elapsed, httpResponse, outcome>>
    /\ UNCHANGED <<scoreVars, cardVars, corsVars>>

\* the aborted fetch, or the aborted read of the body, rejects with an
\* AbortError: the catch block throws the timeout error; finally
AbortRejects ==
    /\ fetchPc \in {"fetching", "reading"}
    /\ aborted
    /\ outcome' = Rejected(MSG_TIMEOUT)
    /\ timeoutId' = clearTimeout(timeoutId)
    /\ fetchPc' = "settled"
    /\ UNCHANGED <<options, aborted, elapsed, httpResponse>>
    /\ UNCHANGED <<scoreVars, cardVars, corsVars>>

\* the headers of the response arrive: fetch resolves and the read of the
\* body starts
HeadersArrive ==
    /\ fetchPc = "fetching"
    /\ ~aborted
    /\ \E status \in StatusInputs : httpResponse' = [t |-> "object", v |-> 0, status |-> status]
    /\ fetchPc' = "reading"
    /\ UNCHANGED <<options, timeoutId, aborted, elapsed, outcome>>
    /\ UNCHANGED <<scoreVars, cardVars, corsVars>>

\* fetch, or the read of the body, fails with a network error (a TypeError):
\* the catch block throws it again; finally
NetworkFails ==
    /\ fetchPc \in {"fetching", "reading"}
    /\ ~aborted
    /\ outcome' = Rejected(<<"TypeError">>)
    /\ timeoutId' = clearTimeout(timeoutId)
    /\ fetchPc' = "settled"
    /\ UNCHANGED <<options, aborted, elapsed, httpResponse>>
    /\ UNCHANGED <<scoreVars, cardVars, corsVars>>

\* the body has arrived: response.text() resolves; parse, status check,
\* return or throw; finally
BodyArrives ==
    /\ fetchPc = "reading"
    /\ ~aborted
    /\ \E text \in BodyTexts : outcome' = settleWith(text, httpResponse.status)
    /\ timeoutId' = clearTimeout(timeoutId)
    /\ fetchPc' = "settled"
    /\ UNCHANGED <<options, aborted, elapsed, httpResponse>>
    /\ UNCHANGED <<scoreVars, cardVars, corsVars>>

\* the caller has its result; the call is over
FetchDone ==
    /\ fetchPc = "settled"
    /\ fetchPc' = "idle"
    /\ options' = Undefined
    /\ timeoutId' = "none"
    /\ aborted' = FALSE
    /\ elapsed' = 0
    /\ httpResponse' = Undefined
    /\ outcome' = Undefined
    /\ UNCHANGED <<scoreVars, cardVars, corsVars>>

NextFetch ==
    \/ CallDoFetch
    \/ Tick
    \/ TimerFires
    \/ AbortRejects
    \/ HeadersArrive
    \/ NetworkFails
    \/ BodyArrives
    \/ FetchDone

\* time passes, a timer that is due fires, and an aborted request rejects
SpecFetch ==
    /\ InitFetch
    /\ [][NextFetch]_vars
    /\ WF_vars(Tick)
    /\ WF_vars(TimerFires)
    /\ WF_vars(AbortRejects)

(***************************************************************************)
(* SunsetCard: the forecast effect                                         *)
(***************************************************************************)
\* const apiMissing = !apiConfig.baseUrl
apiMissing == baseUrl = <<>>

\* {apiMissing && <Alert>...} of the rendered component
alertShown == phase = "mounted" /\ apiMissing

MaxRuns == 2

\* a parsed forecast response body whose predicted member is p
ForecastBody(p) == [t |-> "object", v |-> 0, predicted |-> p]

\* bodies res.json() may yield: null, or an object with or without predicted
ForecastBodies ==
    {Null}
    \cup {ForecastBody(p) : p \in {Undefined, Null,
                                   Reading(Undefined, Undefined, Undefined),
                                   Reading(Whole(45), Whole(50), Whole(10)),
                                   Reading(Null, Whole(68), Num(740)),
                                   Reading(Whole(42), Whole(68), Num(740)),
                                   Reading(Whole(100), Whole(100), Whole(100))}}

\* one run of the forecast effect: its fetch and its cancelled flag
NewRun == [st |-> "pending", cancelled |-> FALSE]

\* one run of the metrics effect for the coords value c: its getSunsetIndex
\* call and its cancelled flag
NewLoad(c) == [st |-> "pending", cancelled |-> FALSE, coords |-> c]

\* faulty variant of the cleanup: the cancelled flags are left unset
CancelAll_none(rs) == rs

\* every run so far has been cleaned up
CancelAll(rs) == [i \in DOMAIN rs |-> [rs[i] EXCEPT !.cancelled = TRUE]]

\* faulty variant: the cancelled flag of a run is never consulted
isCancelled_never(run) == FALSE

\* the cancelled flag of an effect run, as its continuation reads it
isCancelled(run) == run.cancelled

\* faulty variant: the score is not recomputed when forecast data is accepted
nextSunsetScore_stale(data) == sunsetScore

\* calculateSunsetScore(data.predicted)
nextSunsetScore(data) == calculateSunsetScore(data.predicted)

(***************************************************************************)
(* SunsetCard: the toast and its effect                                    *)
(***************************************************************************)
\* the delay of the timer the toast effect starts
TOAST_MS == 4800

\* the toast messages, by what they say
MSG_FAILED == "under maintenance or communication failed"

MSG_CONFIGURE == "set VITE_API_URL in frontend/.env"

MSG_GENERATED == "card generated"

MSG_SAVED == "image saved"

MSG_SAVE_FAILED == "image could not be saved"

\* the identity of the next toast object: a new object is never the object
\* that is shown now
FreshRef == IF toast.t = "null" THEN 0 ELSE 1 - toast.ref

\* faulty variant of the cleanup of the toast effect: the timer is left armed
clearTimeoutOf_none(timers, shown) == timers

\* the cleanup of the toast effect run for the toast shown: clearTimeout(handle)
clearTimeoutOf(timers, shown) ==
    IF shown.t = "null" THEN timers ELSE {h \in timers : h.toast # shown.ref}

\* setToast({ message, tone }) and the toast effect after the render: the
\* cleanup of the previous run, then a timer for the new toast
setToast(message, tone) ==
    LET next == [t |-> "object", v |-> 0, message |-> message, tone |-> tone,
                 ref |-> FreshRef]
    IN /\ toast' = next
       /\ toastTimers' = clearTimeoutOf(toastTimers, toast)
                            \cup {[toast |-> next.ref, delay |-> TOAST_MS]}

(***************************************************************************)
(* SunsetCard: the metrics effect and the displayed score                  *)
(***************************************************************************)
\* a parsed sunset-index response body
MetricsBody(s, time, m) ==
    [t |-> "object", v |-> 0, score |-> s, sunsetTime |-> time, metrics |-> m]

\* the metrics member of a sunset-index response body
CurrentMetrics(w, c, h, p) ==
    [t |-> "object", v |-> 0, weather |-> w, clouds |-> c, humidity |-> h, pm25 |-> p]

\* bodies getSunsetIndex may resolve with: null (an empty body), or an object
\* whose score is missing, null, a number in or out of range, an overflowing
\* numeral (1e999 parses to Infinity) or a string
MetricsBodies ==
    {Null,
     MetricsBody(Undefined, Undefined, Undefined),
     MetricsBody(Null, Undefined, Null),
     MetricsBody(Num(7350), Str(<<"18:05">>),
                 CurrentMetrics(Str(<<"Clouds">>), Whole(40), Whole(60), Num(740))),
     MetricsBody(Whole(150), Str(<<"2026-11-03T09:05:00Z">>),
                 CurrentMetrics(Undefined, Undefined, Undefined, Str(<<"7.4">>))),
     MetricsBody(Whole(0 - 5), Undefined, Undefined),
     MetricsBody(Str(<<"high">>), Undefined, Undefined),
     MetricsBody(PosInf, Undefined, Undefined)}

\* m?.[f]
Opt(m, f) == IF Nullish(m) THEN Undefined ELSE m[f]

\* Math.min(100, Math.max(0, Math.round(response.score ?? 0)))
nextScoreOf(response) ==
    MathMin(Whole(100), MathMax(Num(0), MathRound(Coalesce(response.score, Num(0)))))

\* formatSunset: "--:--" for nothing, an H:MM text or an unparseable text as it
\* is, a parseable date as its local time of day
formatSunset(val) ==
    IF Nullish(val) \/ val.s = <<>> THEN Str(<<"--:--">>)
    ELSE IF val.s = <<"2026-11-03T09:05:00Z">> THEN Str(<<"18:05">>)
    ELSE val

\* the argument of setMetrics
nextMetricsOf(response) ==
    LET m == response.metrics IN
    [weather |-> Coalesce(Opt(m, "weather"), Str(<<"fetching data">>)),
     clouds |-> Coalesce(Opt(m, "clouds"), Num(0)),
     humidity |-> Coalesce(Opt(m, "humidity"), Num(0)),
     pm25 |-> IF TypeofNumber(Opt(m, "pm25")) THEN Opt(m, "pm25") ELSE Null]

\* faulty variant: the sunset-index score is preferred to the forecast score
displayScore_scoreFirst == clampScore(score)

\* faulty variant: the score is displayed without clampScore
displayScore_raw == Coalesce(sunsetScore, score)

\* const displayScore = clampScore(sunsetScore ?? score)
displayScore == clampScore(Coalesce(sunsetScore, score))

\* const isForecastScore = sunsetScore !== null
isForecastScore == sunsetScore.t # "null"

(***************************************************************************)
(* SunsetCard: the image URL of a generated card                           *)
(***************************************************************************)
CDN_BASE_URL == "https://matsuesunsetai.com"

\* the symbols that are a scheme and a host: a text that starts with one of
\* them is what new URL() parses
Origins == {CDN_BASE_URL, "https://img.example", "https://cf.example", "s3://bucket"}

RECURSIVE StripLeadingSlashes(_)
\* s.replace(/^\/+/, "")
StripLeadingSlashes(s) ==
    IF s # <<>> /\ Head(s) = "/" THEN StripLeadingSlashes(Rest(s)) ELSE s

\* new URL(s).pathname for a text s that starts with a scheme and a host
Pathname(s) == IF Rest(s) = <<>> THEN <<"/">> ELSE Rest(s)

\* deriveObjectKeyFromUrl: undefined for a falsy candidate; the path of a URL,
\* or the candidate itself when it is no URL, without leading slashes
deriveObjectKeyFromUrl(candidate) ==
    IF Nullish(candidate) \/ candidate.s = <<>> THEN Undefined
    ELSE IF Head(candidate.s) \in Origins
         THEN Str(StripLeadingSlashes(Pathname(candidate.s)))
         ELSE Str(StripLeadingSlashes(candidate.s))

\* buildPublicImageUrl: undefined without a key, else the key under the CDN
buildPublicImageUrl(objectKey) ==
    IF Nullish(objectKey) THEN Undefined
    ELSE LET normalized == StripLeadingSlashes(objectKey.s)
         IN IF normalized = <<>> THEN Undefined
            ELSE Str(<<CDN_BASE_URL, "/">> \o normalized)

\* resolveImageUrl: the first field that is not undefined or null decides
resolveImageUrl(res) ==
    buildPublicImageUrl(
        Coalesce(res.objectKey,
        Coalesce(deriveObjectKeyFromUrl(res.imageUrl),
        Coalesce(deriveObjectKeyFromUrl(res.cloudFrontUrl),
                 deriveObjectKeyFromUrl(res.s3Url)))))

\* a parsed generate-card response body
GenerateBody(k, i, c, s3, jst) ==
    [t |-> "object", v |-> 0, objectKey |-> k, imageUrl |-> i, cloudFrontUrl |-> c,
     s3Url |-> s3, sunsetJst |-> jst]

ObjectKeyInputs ==
    {Undefined, Null, Str(<<>>), Str(<<"/">>), Str(<<"a.jpg">>), Str(<<"/", "a.jpg">>)}

ImageUrlInputs ==
    {Undefined, Str(<<>>), Str(<<"https://img.example">>),
     Str(<<"https://img.example", "/", "b.jpg">>), Str(<<"/", "b.jpg">>)}

CloudFrontUrlInputs == {Undefined, Str(<<"https://cf.example", "/", "c.jpg">>)}

S3UrlInputs == {Undefined, Str(<<"s3://bucket", "/", "d.jpg">>)}

\* bodies generateCard may resolve with: null (an empty body), or an object:
\* every pair of an object key and an image URL without the other URLs, and
\* the other URLs behind an object key and an image URL that are absent or
\* yield no key
GenerateBodies ==
    {Null}
    \cup {GenerateBody(k, i, Undefined, Undefined, Undefined) :
            k \in ObjectKeyInputs, i \in ImageUrlInputs}
    \cup {GenerateBody(k, i, c, s3, Str(<<"18:05">>)) :
            k \in {Undefined, Str(<<>>)},
            i \in {Undefined, Str(<<"https://img.example">>)},
            c \in CloudFrontUrlInputs, s3 \in S3UrlInputs}

\* the downloads of handleSaveImage in flight at one time
MaxSaves == 1

\* the argument of setResp
nextRespOf(response, nextUrl) ==
    [t |-> "object", v |-> 0,
     imageUrl |-> nextUrl,
     objectKey |-> Coalesce(response.objectKey,
                   Coalesce(deriveObjectKeyFromUrl(nextUrl), Str(<<>>))),
     sunsetJst |-> response.sunsetJst]

(***************************************************************************)
(* SunsetCard: mount, effects, responses and handlers                      *)
(***************************************************************************)
InitCard ==
    /\ NoCall
    /\ NoStack
    /\ NoFetch
    /\ NoMetrics
    /\ NoToast
    /\ NoGenerate
    /\ phase = "unloaded"
    /\ viteApiUrl \in EnvInputs
    /\ baseUrl = <<>>
    /\ forecast = Null
    /\ sunsetScore = Null
    /\ forecastError = Null
    /\ loadingForecast = FALSE
    /\ runs = <<>>

\* the api.ts module is evaluated: apiConfig.baseUrl = BASE
LoadApiModule ==
    /\ phase = "unloaded"
    /\ baseUrl' = BASE(viteApiUrl)
    /\ phase' = "loaded"
    /\ UNCHANGED <<viteApiUrl, forecastVars, metricsVars, toastVars, generateVars>>
    /\ UNCHANGED <<scoreVars, corsVars, fetchVars>>

\* first render and commit: the state is initial; the toast effect returns
\* at once, the spot effect queues setCoords, and the metrics effect and the
\* forecast effect return at once when the API is missing, else each starts
\* its request
Mount ==
    /\ phase = "loaded"
    /\ phase' = "mounted"
    /\ forecast' = Null
    /\ sunsetScore' = Null
    /\ forecastError' = Null
    /\ coords' = "DEFAULT_COORDS"
    /\ score' = Whole(50)
    /\ sunsetTime' = Str(<<"--:--">>)
    /\ metrics' = InitialMetrics
    /\ IF apiMissing
       THEN /\ loadingForecast' = FALSE /\ runs' = <<>>
            /\ loadingMetrics' = FALSE /\ metricsRuns' = <<>>
       ELSE /\ loadingForecast' = TRUE /\ runs' = <<NewRun>>
            /\ loadingMetrics' = TRUE /\ metricsRuns' = <<NewLoad("DEFAULT_COORDS")>>
    /\ UNCHANGED <<viteApiUrl, baseUrl, toastVars, generateVars>>
    /\ UNCHANGED <<scoreVars, corsVars, fetchVars>>

\* every effect is cleaned up and run again before any response is handled
\* and before the queued setCoords is rendered (the mount-time double
\* invocation of React's strict mode)
StrictRemount ==
    /\ phase = "mounted"
    /\ runs # <<>>
    /\ Len(runs) < MaxRuns
    /\ coords = "DEFAULT_COORDS"
    /\ \A i \in DOMAIN runs : runs[i].st = "pending"
    /\ \A i \in DOMAIN metricsRuns : metricsRuns[i].st = "pending"
    /\ toast.t = "null"
    /\ generateCall = "none"
    /\ saving = 0
    /\ runs' = Append(CancelAll(runs), NewRun)
    /\ loadingForecast' = TRUE
    /\ forecastError' = Null
    /\ metricsRuns' = Append(CancelAll(metricsRuns), NewLoad(coords))
    /\ loadingMetrics' = TRUE
    /\ UNCHANGED <<phase, viteApiUrl, baseUrl, forecast, sunsetScore>>
    /\ UNCHANGED <<coords, score, sunsetTime, metrics, toastVars, generateVars>>
    /\ UNCHANGED <<scoreVars, corsVars, fetchVars>>

\* the render after the setCoords of the spot effect: coords is a new
\* object, so the metrics effect is cleaned up and run again
SetCoords ==
    /\ phase = "mounted"
    /\ coords = "DEFAULT_COORDS"
    /\ coords' = "nextSpot"
    /\ IF apiMissing
       THEN UNCHANGED <<loadingMetrics, metricsRuns>>
       ELSE /\ metricsRuns' = Append(CancelAll(metricsRuns), NewLoad("nextSpot"))
            /\ loadingMetrics' = TRUE
    /\ UNCHANGED <<phase, viteApiUrl, baseUrl, forecastVars, score, sunsetTime, metrics,
                   toastVars, generateVars>>
    /\ UNCHANGED <<scoreVars, corsVars, fetchVars>>

\* the component is unmounted: every effect is cleaned up
Unmount ==
    /\ phase = "mounted"
    /\ phase' = "unmounted"
    /\ runs' = CancelAll(runs)
    /\ metricsRuns' = CancelAll(metricsRuns)
    /\ toastTimers' = clearTimeoutOf(toastTimers, toast)
    /\ UNCHANGED <<viteApiUrl, baseUrl, forecast, sunsetScore, forecastError, loadingForecast>>
    /\ UNCHANGED <<coords, score, sunsetTime, metrics, loadingMetrics, toast, generateVars>>
    /\ UNCHANGED <<scoreVars, corsVars, fetchVars>>

\* the fetch of run i resolves with an ok response whose body parses to data
ForecastResolve ==
    /\ \E i \in DOMAIN runs, data \in ForecastBodies :
        /\ runs[i].st = "pending"
        /\ runs' = [runs EXCEPT ![i].st = "settled"]
        /\ IF isCancelled(runs[i])
           THEN UNCHANGED <<forecast, sunsetScore, forecastError, loadingForecast>>
           ELSE IF data.t = "null"
                THEN \* setForecast(null), then data.predicted throws: catch
                     /\ forecast' = Null
                     /\ sunsetScore' = Null
                     /\ forecastError' = [t |-> "string", v |-> 0]
                     /\ loadingForecast' = FALSE
                ELSE /\ forecast' = data
                     /\ sunsetScore' = nextSunsetScore(data)
                     /\ loadingForecast' = FALSE
                     /\ UNCHANGED forecastError
    /\ UNCHANGED <<phase, viteApiUrl, baseUrl, metricsVars, toastVars, generateVars>>
    /\ UNCHANGED <<scoreVars, corsVars, fetchVars>>

\* the fetch of run i rejects, answers with a status that is not ok, or its
\* body is not JSON: the catch block
ForecastReject ==
    /\ \E i \in DOMAIN runs :
        /\ runs[i].st = "pending"
        /\ runs' = [runs EXCEPT ![i].st = "settled"]
        /\ IF isCancelled(runs[i])
           THEN UNCHANGED <<sunsetScore, forecastError, loadingForecast>>
           ELSE /\ sunsetScore' = Null
                /\ forecastError' = [t |-> "string", v |-> 0]
                /\ loadingForecast' = FALSE
    /\ UNCHANGED <<phase, viteApiUrl, baseUrl, forecast, metricsVars, toastVars, generateVars>>
    /\ UNCHANGED <<scoreVars, corsVars, fetchVars>>

\* the catch and finally blocks of load() in a run that is not cancelled
loadFails ==
    /\ setToast(MSG_FAILED, "error")
    /\ loadingMetrics' = FALSE
    /\ UNCHANGED <<score, sunsetTime, metrics>>

\* the getSunsetIndex call of run i resolves with the body response
MetricsResolve ==
    /\ \E i \in DOMAIN metricsRuns, response \in MetricsBodies :
        /\ metricsRuns[i].st = "pending"
        /\ metricsRuns' = [metricsRuns EXCEPT ![i].st = "settled"]
        /\ IF isCancelled(metricsRuns[i])
           THEN UNCHANGED <<score, sunsetTime, metrics, loadingMetrics, toastVars>>
           ELSE IF response.t = "null"
                THEN \* response.score throws: catch, finally
                     loadFails
                ELSE /\ score' = nextScoreOf(response)
                     /\ sunsetTime' = formatSunset(response.sunsetTime)
                     /\ metrics' = nextMetricsOf(response)
                     /\ loadingMetrics' = FALSE
                     /\ UNCHANGED toastVars
    /\ UNCHANGED <<phase, viteApiUrl, baseUrl, forecastVars, coords, generateVars>>
    /\ UNCHANGED <<scoreVars, corsVars, fetchVars>>

\* the getSunsetIndex call of run i rejects: network error, status that is
\* not ok, malformed body or timeout
MetricsReject ==
    /\ \E i \in DOMAIN metricsRuns :
        /\ metricsRuns[i].st = "pending"
        /\ metricsRuns' = [metricsRuns EXCEPT ![i].st = "settled"]
        /\ IF isCancelled(metricsRuns[i])
           THEN UNCHANGED <<score, sunsetTime, metrics, loadingMetrics, toastVars>>
           ELSE loadFails
    /\ UNCHANGED <<phase, viteApiUrl, baseUrl, forecastVars, coords, generateVars>>
    /\ UNCHANGED <<scoreVars, corsVars, fetchVars>>

\* the timer h of the toast effect fires: setToast(null); the render that
\* follows cleans the effect up and the effect returns at once
ToastTimerFires ==
    /\ phase = "mounted"
    /\ \E h \in toastTimers :
        /\ toast' = Null
        /\ toastTimers' = clearTimeoutOf(toastTimers \ {h}, toast)
    /\ UNCHANGED <<phase, viteApiUrl, baseUrl, forecastVars, metricsVars, generateVars>>
    /\ UNCHANGED <<scoreVars, corsVars, fetchVars>>

\* a click on the generate button, which is disabled while loadingImage:
\* handleGenerate up to its await
HandleGenerate ==
    /\ phase = "mounted"
    /\ ~loadingImage
    /\ IF apiMissing
       THEN /\ setToast(MSG_CONFIGURE, "error")
            /\ UNCHANGED generateVars
       ELSE /\ loadingImage' = TRUE
            /\ generateCall' = "pending"
            /\ payload' = [t |-> "object", v |-> 0, conditions |-> metrics.weather,
                           score |-> displayScore]
            /\ UNCHANGED <<previewUrl, resp, lastGeneratedAt, saving, toastVars>>
    /\ UNCHANGED <<phase, viteApiUrl, baseUrl, forecastVars, metricsVars>>
    /\ UNCHANGED <<scoreVars, corsVars, fetchVars>>

\* faulty variant: the busy flag is not released on failure
generateFails_staysBusy ==
    /\ setToast(MSG_FAILED, "error")
    /\ UNCHANGED <<loadingImage, previewUrl, resp, lastGeneratedAt>>

\* the catch and finally blocks of handleGenerate
generateFails ==
    /\ setToast(MSG_FAILED, "error")
    /\ loadingImage' = FALSE
    /\ UNCHANGED <<previewUrl, resp, lastGeneratedAt>>

\* generateCard resolves with the body response: handleGenerate after its
\* await; the state updates of an unmounted component are dropped
GenerateResolve(response) ==
    /\ generateCall = "pending"
    /\ generateCall' = "none"
    /\ payload' = Undefined
    /\ IF phase # "mounted"
       THEN UNCHANGED <<loadingImage, previewUrl, resp, lastGeneratedAt, toastVars>>
       ELSE IF Nullish(response) \/ Nullish(resolveImageUrl(response))
            THEN \* response.objectKey throws, or no URL: catch, finally
                 generateFails
            ELSE /\ previewUrl' = resolveImageUrl(response)
                 /\ resp' = nextRespOf(response, resolveImageUrl(response))
                 /\ lastGeneratedAt' = Str(<<"now">>)
                 /\ setToast(MSG_GENERATED, "success")
                 /\ loadingImage' = FALSE
    /\ UNCHANGED <<phase, viteApiUrl, baseUrl, forecastVars, metricsVars, saving>>
    /\ UNCHANGED <<scoreVars, corsVars, fetchVars>>

\* generateCard resolves
GenerateResolves == \E response \in GenerateBodies : GenerateResolve(response)

\* generateCard rejects: network error, status that is not ok, malformed body
\* or timeout
GenerateRejects ==
    /\ generateCall = "pending"
    /\ generateCall' = "none"
    /\ payload' = Undefined
    /\ IF phase # "mounted"
       THEN UNCHANGED <<loadingImage, previewUrl, resp, lastGeneratedAt, toastVars>>
       ELSE generateFails
    /\ UNCHANGED <<phase, viteApiUrl, baseUrl, forecastVars, metricsVars, saving>>
    /\ UNCHANGED <<scoreVars, corsVars, fetchVars>>

\* a click on the save button, which is disabled without a preview URL:
\* handleSaveImage up to its await
HandleSaveImage ==
    /\ phase = "mounted"
    /\ previewUrl.s # <<>>
    /\ saving < MaxSaves
    /\ saving' = saving + 1
    /\ UNCHANGED <<loadingImage, previewUrl, resp, lastGeneratedAt, generateCall, payload>>
    /\ UNCHANGED <<phase, viteApiUrl, baseUrl, forecastVars, metricsVars, toastVars>>
    /\ UNCHANGED <<scoreVars, corsVars, fetchVars>>

\* downloadCardImage resolves or rejects: handleSaveImage after its await
SaveImageSettles ==
    /\ saving > 0
    /\ saving' = saving - 1
    /\ IF phase # "mounted"
       THEN UNCHANGED toastVars
       ELSE \/ setToast(MSG_SAVED, "success")
            \/ setToast(MSG_SAVE_FAILED, "error")
    /\ UNCHANGED <<loadingImage, previewUrl, resp, lastGeneratedAt, generateCall, payload>>
    /\ UNCHANGED <<phase, viteApiUrl, baseUrl, forecastVars, metricsVars>>
    /\ UNCHANGED <<scoreVars, corsVars, fetchVars>>

\* the module load, the mount and the forecast effect
NextCard ==
    \/ LoadApiModule
    \/ Mount
    \/ StrictRemount
    \/ Unmount
    \/ ForecastResolve
    \/ ForecastReject

SpecCard == InitCard /\ [][NextCard]_vars

\* values of VITE_API_URL of a session: unset (the default base), or "/"
\* (an empty base: the API is missing)
SessionEnvInputs == {[set |-> FALSE, s |-> <<>>], [set |-> TRUE, s |-> <<"/">>]}

InitSession ==
    /\ NoCall
    /\ NoStack
    /\ NoFetch
    /\ NoMetrics
    /\ NoToast
    /\ NoGenerate
    /\ phase = "unloaded"
    /\ viteApiUrl \in SessionEnvInputs
    /\ baseUrl = <<>>
    /\ forecast = Null
    /\ sunsetScore = Null
    /\ forecastError = Null
    /\ loadingForecast = FALSE
    /\ runs = <<>>

\* the scores of a session: both effects with their responses, and the
\* payload handleGenerate sends
NextMetrics ==
    \/ LoadApiModule
    \/ Mount
    \/ StrictRemount
    \/ SetCoords
    \/ Unmount
    \/ ForecastResolve
    \/ ForecastReject
    \/ MetricsResolve
    \/ MetricsReject
    \/ HandleGenerate

SpecMetrics == InitSession /\ [][NextMetrics]_vars

\* the cards and toasts of a session: the handlers with their responses,
\* the failures of the metrics effect, and the toast timer
NextGenerate ==
    \/ LoadApiModule
    \/ Mount
    \/ SetCoords
    \/ Unmount
    \/ MetricsReject
    \/ ToastTimerFires
    \/ HandleGenerate
    \/ GenerateResolves
    \/ GenerateRejects
    \/ HandleSaveImage
    \/ SaveImageSettles

SpecGenerate == InitSession /\ [][NextGenerate]_vars

\* the timer of a toast fires unless it is cleared first
SpecToast == SpecGenerate /\ WF_vars(ToastTimerFires)

(***************************************************************************)
(* infra/cdk/lib/sunset-forecast-stack.ts: the allowed CORS origins        *)
(***************************************************************************)
\* the elements of a list
Range(list) == {list[i] : i \in DOMAIN list}

\* the position of the first "," of a string that has one
FirstComma(s) ==
    CHOOSE i \in 1..Len(s) : s[i] = "," /\ \A j \in 1..(i - 1) : s[j] # ","

RECURSIVE SplitComma(_)
\* s.split(",")
SplitComma(s) ==
    IF "," \notin Range(s) THEN <<s>>
    ELSE <<SubSeq(s, 1, FirstComma(s) - 1)>>
             \o SplitComma(SubSeq(s, FirstComma(s) + 1, Len(s)))

\* .map((origin) => origin.trim())
MapTrim(list) == [i \in DOMAIN list |-> Trim(list[i])]

\* .filter((origin) => origin.length > 0)
NonEmptyOnly(list) == SelectSeq(list, LAMBDA x : Len(x) > 0)

RECURSIVE FromSet(_)
\* Array.from(new Set(list)): the first occurrence of every element, in order
FromSet(list) ==
    IF list = <<>> THEN <<>>
    ELSE LET r == FromSet(Front(list)) IN
         IF list[Len(list)] \in Range(r) THEN r ELSE Append(r, list[Len(list)])

\* [`https://${apexDomain}`, `https://${wwwDomain}`]
canonicalHttpsOrigins(domain) ==
    << <<"https://">> \o domain, <<"https://">> \o (<<"www.">> \o domain) >>

\* props.frontendOrigin?.split(",").map(trim).filter(nonempty) ?? []
frontendOrigins(origin) ==
    IF origin.set THEN NonEmptyOnly(MapTrim(SplitComma(origin.s))) ELSE <<>>

\* faulty variant: the origins are concatenated without removing duplicates
resolveAllowedOrigins_noSet(domain, origin) ==
    canonicalHttpsOrigins(domain) \o frontendOrigins(origin)

\* Array.from(new Set([...canonicalHttpsOrigins, ...frontendOrigins]))
resolveAllowedOrigins(domain, origin) ==
    FromSet(canonicalHttpsOrigins(domain) \o frontendOrigins(origin))

MaxOriginLen == 5

\* values of props.myDomainName
DomainInputs == {<<"a.com">>, <<"b.org">>}

\* values of props.frontendOrigin: unspecified, or a string
OriginInputs ==
    {[set |-> FALSE, s |-> <<>>]}
    \cup {[set |-> TRUE, s |-> x] :
            x \in StringsUpTo({"https://", "www.", "a.com", " ", ","}, MaxOriginLen)}

InitCors ==
    /\ NoCall
    /\ NoCard
    /\ NoFetch
    /\ corsPc = "idle"
    /\ myDomainName \in DomainInputs
    /\ frontendOrigin \in OriginInputs
    /\ resolvedAllowedOrigins = <<>>

\* the constructor computes resolvedAllowedOrigins, the allowOrigins of the
\* API's defaultCorsPreflightOptions
ConstructStack ==
    /\ corsPc = "idle"
    /\ resolvedAllowedOrigins' = resolveAllowedOrigins(myDomainName, frontendOrigin)
    /\ corsPc' = "constructed"
    /\ UNCHANGED <<myDomainName, frontendOrigin>>
    /\ UNCHANGED <<scoreVars, cardVars, fetchVars>>

NextCors == ConstructStack

SpecCors == InitCors /\ [][NextCors]_vars

(***************************************************************************)
(* Properties                                                              *)
(***************************************************************************)
\* calculateSunsetScore has returned to its caller
CalculateReturned == pc = "returned" /\ frame = "calculateSunsetScore"

\* x is an integer between 0 and 100
IsScore(x) == x.t = "number" /\ x.v % 100 = 0 /\ 0 <= x.v /\ x.v <= 10000

\* the field value with its fallback in place of an unusable value
OrFallback(x, units) == IF x \in Unusable THEN Whole(units) ELSE x

\* C1: for every forecast reading, whatever its three fields (absent, null,
\* non-finite, negative, zero, in range, far above 100), the score that
\* calculateSunsetScore returns is an integer n with 0 <= n <= 100.
C1_ScoreIsIntegerInRange ==
    (CalculateReturned /\ predicted.t = "object") => IsScore(result)

\* C1 witness: a reading with cloud cover absent, humidity far below zero and
\* PM2.5 far above 100 has been scored (24.5 + 20 + 0 + 15 = 59.5, hence 60).
C1_Witness ==
    /\ CalculateReturned
    /\ predicted = Reading(Undefined, Num(0 - 100000), Num(100000))
    /\ result = Whole(60)

\* C2: each unusable field (absent, null, NaN, +/-Infinity) is replaced on its
\* own by 60, 65 or 12: the normalized locals carry the fallback, and the score
\* equals the score of the same reading with the fallback written in the field.
C2_FallbackPerField ==
    (pc \in {"calc_terms", "calc_sum", "clamp", "returned"}
        /\ frame = "calculateSunsetScore" /\ predicted.t = "object")
    => /\ (predicted.cloudCover_pct \in Unusable => clouds = Whole(60))
       /\ (predicted.humidity_pct \in Unusable => humidity = Whole(65))
       /\ (predicted.pm25_ugm3 \in Unusable => pm = Whole(12))
       /\ (pc = "returned" =>
             result = calculateSunsetScore(
                         Reading(OrFallback(predicted.cloudCover_pct, 60),
                                 OrFallback(predicted.humidity_pct, 65),
                                 OrFallback(predicted.pm25_ugm3, 12))))

\* C2 witness: the reading {cloud cover absent, humidity 50, PM2.5 NaN} has
\* been scored as (60, 50, 12): 24.5 + 20 + 30 + 15 = 89.5, hence 90.
C2_Witness ==
    /\ CalculateReturned
    /\ predicted = Reading(Undefined, Whole(50), NaN)
    /\ clouds = Whole(60)
    /\ pm = Whole(12)
    /\ result = Whole(90)

\* C3 as claimed: calculateSunsetScore never throws and returns an integer
\* score for every input, the absent reading included.
C3_AlwaysIntegerScore ==
    CalculateReturned => (~threw /\ IsScore(result))

\* C3 amended: calculateSunsetScore never throws; for every reading that is
\* present, a reading whose three fields are all missing included, it returns
\* an integer score; for an absent reading (undefined or null) it returns null.
C3_TotalNullForAbsent ==
    CalculateReturned =>
        /\ ~threw
        /\ (predicted.t = "object" => IsScore(result))
        /\ (predicted.t \in {"undefined", "null"} => result = Null)

\* C3 witness: the call with no reading at all has returned null, not thrown.
C3_Witness ==
    /\ CalculateReturned
    /\ predicted = Undefined
    /\ result = Null
    /\ ~threw

\* C4: clampScore of a finite value is the nearest integer, an exact .5 tie
\* going to the larger integer, then clamped into [0, 100].
C4_RoundHalfUpThenClamp ==
    (pc = "returned" /\ value.t = "number") =>
        /\ result.t = "number"
        /\ result.v % 100 = 0
        /\ (value.v >= 9950 => result.v = 10000)
        /\ (value.v < 50 => result.v = 0)
        /\ ((50 <= value.v /\ value.v < 9950) =>
               (result.v - 50 <= value.v /\ value.v < result.v + 50))
        /\ (value = Num(8450) => result = Whole(85))
        /\ (value = Num(0 - 50) => result = Whole(0))
        /\ (value = Num(10040) => result = Whole(100))
        /\ (value = Num(25000) => result = Whole(100))
        /\ (value = Num(0 - 300) => result = Whole(0))

\* C4 witness: clampScore(84.5) has returned 85.
C4_Witness ==
    /\ pc = "returned"
    /\ frame = "clampScore"
    /\ value = Num(8450)
    /\ result = Whole(85)

\* C5: clampScore returns 0 whenever its argument is NaN, +Infinity or
\* -Infinity.
C5_NonFiniteGivesZero ==
    (pc = "returned" /\ value \in {NaN, PosInf, NegInf}) => result = Num(0)

\* C5 witness: clampScore(+Infinity) has returned 0.
C5_Witness ==
    /\ pc = "returned"
    /\ frame = "clampScore"
    /\ value = PosInf
    /\ result = Num(0)

\* the terms of the call in progress have been computed from its normalized
\* readings
TermsComputed ==
    pc \in {"calc_sum", "clamp", "returned"}
        /\ frame = "calculateSunsetScore" /\ predicted.t = "object"

\* the readings of the call in progress have been normalized
NormalizeDone ==
    pc \in {"calc_terms", "calc_sum", "clamp", "returned"}
        /\ frame = "calculateSunsetScore" /\ predicted.t = "object"

\* |a - b| on integers
Distance(a, b) == IF a < b THEN b - a ELSE a - b

\* C6: cloudTerm is 35 at cloud cover 45, loses 0.7 per percentage point of
\* distance from 45 on either side, and is 0, never negative, from a distance
\* of 50 on.
C6_CloudTermShape ==
    TermsComputed =>
        LET d == Distance(4500, clouds.v) IN
        /\ clouds.t = "number"
        /\ cloudTerm.t = "number"
        /\ cloudTerm.v >= 0
        /\ (d = 0 => cloudTerm.v = 3500)
        /\ (d < 5000 => 10 * cloudTerm.v = 35000 - 7 * d)
        /\ (d >= 5000 => cloudTerm.v = 0)

\* C6 witness: cloud cover 42, on the low side of 45, has the term 32.9.
C6_Witness ==
    /\ pc = "calc_sum"
    /\ clouds = Whole(42)
    /\ cloudTerm = Num(3290)

\* C7: humidityTerm is exactly 20 for every humidity up to 55, negative ones
\* included, loses 0.5 per percentage point above 55, and is 0, never negative,
\* from 95 on.
C7_HumidityTermShape ==
    TermsComputed =>
        /\ humidity.t = "number"
        /\ humidityTerm.t = "number"
        /\ humidityTerm.v >= 0
        /\ humidityTerm.v <= 2000
        /\ (humidity.v <= 5500 => humidityTerm.v = 2000)
        /\ ((5500 < humidity.v /\ humidity.v < 9500) =>
               10 * humidityTerm.v = 20000 - 5 * (humidity.v - 5500))
        /\ (humidity.v >= 9500 => humidityTerm.v = 0)

\* C7 witness: a humidity far below zero has the term 20, no more.
C7_Witness ==
    /\ pc = "calc_sum"
    /\ humidity = Num(0 - 100000)
    /\ humidityTerm = Whole(20)

\* C8: pmTerm is exactly 30 for every PM2.5 up to 12, loses 2 per unit above
\* 12, and is 0, never negative, from 27 on.
C8_PmTermShape ==
    TermsComputed =>
        /\ pm.t = "number"
        /\ pmTerm.t = "number"
        /\ pmTerm.v >= 0
        /\ (pm.v <= 1200 => pmTerm.v = 3000)
        /\ ((1200 < pm.v /\ pm.v < 2700) => pmTerm.v = 3000 - 2 * (pm.v - 1200))
        /\ (pm.v >= 2700 => pmTerm.v = 0)

\* C8 witness: PM2.5 of 100, far above 27, has the term 0.
C8_Witness ==
    /\ pc = "calc_sum"
    /\ pm = Whole(100)
    /\ pmTerm = Num(0)

\* C9: the raw score handed to clampScore is cloudTerm + humidityTerm + pmTerm
\* + 15 for every reading; the reading (45, 50, 10) has the raw score 100 and
\* the final score 100.
C9_RawScoreIsSumPlusBaseline ==
    (pc \in {"clamp", "returned"} /\ frame = "calculateSunsetScore"
        /\ predicted.t = "object")
    => /\ value.t = "number"
       /\ value.v = cloudTerm.v + humidityTerm.v + pmTerm.v + 1500
       /\ (predicted = Reading(Whole(45), Whole(50), Whole(10)) =>
             /\ value = Whole(100)
             /\ (pc = "returned" => result = Whole(100)))

\* C9 witness: the reading (45, 50, 10) has been scored: 35 + 20 + 30 + 15.
C9_Witness ==
    /\ CalculateReturned
    /\ predicted = Reading(Whole(45), Whole(50), Whole(10))
    /\ cloudTerm = Whole(35)
    /\ humidityTerm = Whole(20)
    /\ pmTerm = Whole(30)
    /\ value = Whole(100)
    /\ result = Whole(100)

\* C10: every finite field value, in the expected range or not, reaches the
\* term formulas exactly as supplied: it is neither clamped nor replaced.
C10_FinitePassesUnchanged ==
    NormalizeDone =>
        /\ (predicted.cloudCover_pct.t = "number" => clouds = predicted.cloudCover_pct)
        /\ (predicted.humidity_pct.t = "number" => humidity = predicted.humidity_pct)
        /\ (predicted.pm25_ugm3.t = "number" => pm = predicted.pm25_ugm3)

\* C10 witness: cloud cover 120, humidity -10 and PM2.5 -5 have been
\* normalized to themselves.
C10_Witness ==
    /\ pc = "calc_terms"
    /\ predicted = Reading(Whole(120), Whole(0 - 10), Whole(0 - 5))
    /\ clouds = Whole(120)
    /\ humidity = Whole(0 - 10)
    /\ pm = Whole(0 - 5)

\* the finite values among a set of field values
Finite(S) == {x \in S : x.t = "number"}

\* a and b are cloud covers on the same side of 45 (45 itself is on both)
SameSideOf45(a, b) == (a <= 4500 /\ b <= 4500) \/ (a >= 4500 /\ b >= 4500)

\* C11 as claimed: for cloud covers c1, c2 on the same side of 45 with
\* |45 - c1| < |45 - c2|, cloudTerm(c1) > cloudTerm(c2).
C11_StrictDecrease ==
    TermsComputed =>
        \A c2 \in Finite(CloudInputs) :
            (SameSideOf45(clouds.v, c2.v)
                /\ Distance(4500, clouds.v) < Distance(4500, c2.v))
            => cloudTerm.v > cloudTermOf(c2).v

\* C11 amended: for cloud covers c1, c2 on the same side of 45 with
\* |45 - c1| < |45 - c2|, cloudTerm(c1) >= cloudTerm(c2), and cloudTerm(c1) >
\* cloudTerm(c2) whenever |45 - c1| < 50; from a distance of 50 on both terms
\* are at the floor 0.
C11_StrictDecreaseAboveFloor ==
    TermsComputed =>
        \A c2 \in Finite(CloudInputs) :
            (SameSideOf45(clouds.v, c2.v)
                /\ Distance(4500, clouds.v) < Distance(4500, c2.v))
            => /\ cloudTerm.v >= cloudTermOf(c2).v
               /\ (Distance(4500, clouds.v) < 5000 => cloudTerm.v > cloudTermOf(c2).v)
               /\ (Distance(4500, clouds.v) >= 5000 => cloudTerm.v = cloudTermOf(c2).v)

\* C11 witness: cloud cover 60 has the term 24.5, above the 21 of the farther
\* cover 65 on the same side.
C11_Witness ==
    /\ pc = "calc_sum"
    /\ clouds = Whole(60)
    /\ cloudTerm = Num(2450)
    /\ Whole(65) \in CloudInputs
    /\ cloudTermOf(Whole(65)) = Whole(21)

\* C12: humidityTerm and pmTerm never increase when their reading increases,
\* and so, the other two readings fixed, raising a finite humidity or PM2.5
\* reading never raises the final score.
C12_HumidityAndPmNonIncreasing ==
    /\ TermsComputed =>
          /\ \A h2 \in Finite(HumidityInputs) :
                humidity.v <= h2.v => humidityTerm.v >= humidityTermOf(h2).v
          /\ \A p2 \in Finite(PmInputs) :
                pm.v <= p2.v => pmTerm.v >= pmTermOf(p2).v
    /\ (CalculateReturned /\ predicted.t = "object") =>
          /\ \A h2 \in Finite(HumidityInputs) :
                (predicted.humidity_pct.t = "number" /\ predicted.humidity_pct.v <= h2.v)
                => calculateSunsetScore([predicted EXCEPT !.humidity_pct = h2]).v <= result.v
          /\ \A p2 \in Finite(PmInputs) :
                (predicted.pm25_ugm3.t = "number" /\ predicted.pm25_ugm3.v <= p2.v)
                => calculateSunsetScore([predicted EXCEPT !.pm25_ugm3 = p2]).v <= result.v

\* C12 witness: (45, 60, 10) has been scored 98 with humidityTerm 17.5; the
\* same reading with humidity 70 scores 93.
C12_Witness ==
    /\ CalculateReturned
    /\ predicted = Reading(Whole(45), Whole(60), Whole(10))
    /\ humidityTerm = Num(1750)
    /\ result = Whole(98)
    /\ calculateSunsetScore(Reading(Whole(45), Whole(70), Whole(10))) = Whole(93)

\* the reading whose three fields are all absent
AllAbsent == Reading(Undefined, Undefined, Undefined)

\* C13: the reading with all three fields absent is normalized to (60, 65,
\* 12), has the terms 24.5, 15 and 30 and the raw score 84.5, and its final
\* score is 85.
C13_AllAbsentScores85 ==
    (frame = "calculateSunsetScore" /\ predicted = AllAbsent) =>
        /\ (pc \in {"calc_terms", "calc_sum", "clamp", "returned"} =>
              clouds = Whole(60) /\ humidity = Whole(65) /\ pm = Whole(12))
        /\ (pc \in {"calc_sum", "clamp", "returned"} =>
              cloudTerm = Num(2450) /\ humidityTerm = Whole(15) /\ pmTerm = Whole(30))
        /\ (pc \in {"clamp", "returned"} => value = Num(8450))
        /\ (pc = "returned" => result = Whole(85))

\* C13 witness: the all-absent reading has been scored 85 from the raw 84.5.
C13_Witness ==
    /\ CalculateReturned
    /\ predicted = AllAbsent
    /\ value = Num(8450)
    /\ result = Whole(85)

\* C14: the sample forecast (42, 68, 7.4) has the terms 32.9, 13.5 and 30, the
\* raw score 91.4 and the final score 91.
C14_SampleForecastScores91 ==
    (frame = "calculateSunsetScore"
        /\ predicted = Reading(Whole(42), Whole(68), Num(740))) =>
        /\ (pc \in {"calc_sum", "clamp", "returned"} =>
              cloudTerm = Num(3290) /\ humidityTerm = Num(1350) /\ pmTerm = Whole(30))
        /\ (pc \in {"clamp", "returned"} => value = Num(9140))
        /\ (pc = "returned" => result = Whole(91))

\* C14 witness: the sample forecast has been scored 91 from the raw 91.4.
C14_Witness ==
    /\ CalculateReturned
    /\ predicted = Reading(Whole(42), Whole(68), Num(740))
    /\ value = Num(9140)
    /\ result = Whole(91)

\* C15: the reading (100, 100, 100) has all three terms at the floor 0 and the
\* final score 15, the baseline.
C15_WorstCaseScoresBaseline ==
    (frame = "calculateSunsetScore"
        /\ predicted = Reading(Whole(100), Whole(100), Whole(100))) =>
        /\ (pc \in {"calc_sum", "clamp", "returned"} =>
              cloudTerm = Num(0) /\ humidityTerm = Num(0) /\ pmTerm = Num(0))
        /\ (pc \in {"clamp", "returned"} => value = Whole(15))
        /\ (pc = "returned" => result = Whole(15))

\* C15 witness: the reading (100, 100, 100) has been scored 15.
C15_Witness ==
    /\ CalculateReturned
    /\ predicted = Reading(Whole(100), Whole(100), Whole(100))
    /\ cloudTerm = Num(0)
    /\ result = Whole(15)

\* C18: forecast and sunsetScore are updated together: whenever forecast is
\* non-null, sunsetScore is calculateSunsetScore(forecast.predicted), and
\* sunsetScore is never non-null while forecast is null.
C18_ScoreFollowsForecast ==
    /\ (forecast.t # "null" => sunsetScore = calculateSunsetScore(forecast.predicted))
    /\ (forecast.t = "null" => sunsetScore = Null)

\* C18 witness: the sample forecast has been accepted and scored 91.
C18_Witness ==
    /\ phase = "mounted"
    /\ forecast = ForecastBody(Reading(Whole(42), Whole(68), Num(740)))
    /\ sunsetScore = Whole(91)
    /\ ~loadingForecast

\* VITE_API_URL is unset, empty or whitespace only
Unconfigured(env) == ~env.set \/ Trim(env.s) = <<>>

\* C19 as claimed: when VITE_API_URL is unset, empty or whitespace only,
\* apiConfig.baseUrl is empty, apiMissing is true and the mounted component
\* shows the configuration alert.
C19_UnconfiguredIsMissing ==
    (phase # "unloaded" /\ Unconfigured(viteApiUrl)) =>
        /\ baseUrl = <<>>
        /\ apiMissing
        /\ (phase = "mounted" => alertShown)

\* the comma-separated entries of s, trimmed: every maximal stretch of s
\* without a comma
TrimmedEntries(s) ==
    {Trim(SubSeq(s, i, j)) :
        <<i, j>> \in {ij \in (1..(Len(s) + 1)) \X (0..Len(s)) :
                        /\ ij[2] >= ij[1] - 1
                        /\ (ij[1] = 1 \/ s[ij[1] - 1] = ",")
                        /\ (ij[2] = Len(s) \/ s[ij[2] + 1] = ",")
                        /\ \A k \in ij[1]..ij[2] : s[k] # ","}}

\* C20: the allowed origins are https://<domain>, https://www.<domain> and
\* every trimmed non-empty comma-separated entry of frontendOrigin, nothing
\* else, without duplicate and without empty entry; with frontendOrigin
\* unspecified they are exactly the two canonical origins.
C20_AllowedOrigins ==
    corsPc = "constructed" =>
        LET apex == <<"https://">> \o myDomainName
            www == <<"https://", "www.">> \o myDomainName
            entries == IF frontendOrigin.set
                       THEN TrimmedEntries(frontendOrigin.s) \ {<<>>}
                       ELSE {} IN
        /\ Range(resolvedAllowedOrigins) = {apex, www} \cup entries
        /\ Cardinality(Range(resolvedAllowedOrigins)) = Len(resolvedAllowedOrigins)
        /\ <<>> \notin Range(resolvedAllowedOrigins)
        /\ (~frontendOrigin.set => resolvedAllowedOrigins = <<apex, www>>)

\* C20 witness: for a.com and the frontendOrigin " ,https://a.com,www." the
\* origins are the two canonical ones and www.: the empty entry and the
\* duplicate of the apex origin are gone.
C20_Witness ==
    /\ corsPc = "constructed"
    /\ myDomainName = <<"a.com">>
    /\ frontendOrigin = [set |-> TRUE, s |-> <<" ", ",", "https://", "a.com", ",">>]
    /\ resolvedAllowedOrigins = << <<"https://", "a.com">>, <<"https://", "www.", "a.com">> >>

\* C22: for every reading that calculateSunsetScore scores, the raw score
\* handed to clampScore lies in [15, 100]; the returned score is therefore at
\* least 15 and is the rounded raw score itself: the clamp to [0, 100] does
\* not change it.
C22_RawScoreWithinBaselineAndHundred ==
    (pc \in {"clamp", "returned"} /\ frame = "calculateSunsetScore"
        /\ predicted.t = "object")
    => /\ value.t = "number"
       /\ value.v >= baseline * 100
       /\ value.v <= 10000
       /\ (pc = "returned" =>
             /\ result.t = "number"
             /\ result.v >= baseline * 100
             /\ result = MathRound(value))

\* C22 witness: the lower end of the range has been returned: the reading
\* (100, 100, 100) has the raw score 15, and 15 is returned unclamped.
C22_Witness ==
    /\ CalculateReturned
    /\ predicted = Reading(Whole(100), Whole(100), Whole(100))
    /\ value = Whole(baseline)
    /\ result = MathRound(value)
    /\ result = Whole(baseline)

\* C21: in every reachable state of the component, whatever metrics
\* responses, forecast responses and failures it has handled (a sunset-index
\* score that is missing, out of range or not a number included),
\* displayScore is an integer in [0, 100], and so is the score of the payload
\* of every generateCard call.
C21_DisplayScoreIsIntegerInRange ==
    /\ IsScore(displayScore)
    /\ (payload.t = "object" => IsScore(payload.score))

\* C21 witness: a sunset-index response whose score is a string has been
\* accepted, the stored score is NaN, no forecast score exists, and a
\* generateCard call is in flight with the score 0.
C21_Witness ==
    /\ phase = "mounted"
    /\ score = NaN
    /\ sunsetScore = Null
    /\ displayScore = Num(0)
    /\ generateCall = "pending"
    /\ payload.score = Num(0)

\* in this step the request of a run of rs that has been cleaned up settles
StaleSettles(rs, after) ==
    \E i \in DOMAIN rs :
        /\ rs[i].cancelled
        /\ rs[i].st = "pending"
        /\ i \in DOMAIN after
        /\ after[i].st = "settled"

\* C23: a step in which the getSunsetIndex request of a cleaned-up run of
\* the metrics effect settles, by success or by failure and whatever the
\* newer request has done, leaves score, sunsetTime, metrics, toast and
\* loadingMetrics unchanged; a step in which the fetch of a cleaned-up run of
\* the forecast effect settles leaves forecast, sunsetScore, forecastError and
\* loadingForecast unchanged.
C23_StaleResponseChangesNothing ==
    [][/\ StaleSettles(metricsRuns, metricsRuns') =>
            UNCHANGED <<score, sunsetTime, metrics, toast, loadingMetrics>>
       /\ StaleSettles(runs, runs') =>
            UNCHANGED <<forecast, sunsetScore, forecastError, loadingForecast>>]_vars

\* C23 witness: the runs of each effect that were cleaned up (by the
\* mount-time re-run, and by the change of coords) have had their requests
\* settle; the newest getSunsetIndex request is still pending with
\* loadingMetrics true and the initial score, and the newer forecast has been
\* accepted and scored 91.
C23_Witness ==
    /\ phase = "mounted"
    /\ Len(metricsRuns) = 3
    /\ metricsRuns[1] = [st |-> "settled", cancelled |-> TRUE, coords |-> "DEFAULT_COORDS"]
    /\ metricsRuns[2] = [st |-> "settled", cancelled |-> TRUE, coords |-> "DEFAULT_COORDS"]
    /\ metricsRuns[3] = [st |-> "pending", cancelled |-> FALSE, coords |-> "nextSpot"]
    /\ loadingMetrics
    /\ score = Whole(50)
    /\ toast = Null
    /\ Len(runs) = 2
    /\ runs[1] = [st |-> "settled", cancelled |-> TRUE]
    /\ runs[2] = [st |-> "settled", cancelled |-> FALSE]
    /\ sunsetScore = Whole(91)
    /\ ~loadingForecast

\* the most recently started run of the metrics effect has not been cleaned
\* up and its getSunsetIndex request is pending
LatestLoadPending ==
    /\ metricsRuns # <<>>
    /\ ~metricsRuns[Len(metricsRuns)].cancelled
    /\ metricsRuns[Len(metricsRuns)].st = "pending"

\* C24: while the component is mounted, loadingMetrics is true exactly while
\* the most recently started, not cleaned-up getSunsetIndex request is
\* pending: a step that starts a request makes it true, the step in which
\* that request settles makes it false, and it becomes true again only in a
\* step that starts a new request, whether older cancelled requests settle
\* before or after.
C24_LoadingFollowsLatestRequest ==
    /\ [](phase # "unmounted" => (loadingMetrics <=> LatestLoadPending))
    /\ [][/\ Len(metricsRuns') > Len(metricsRuns) => loadingMetrics'
          /\ (LatestLoadPending /\ ~LatestLoadPending' /\ phase' = "mounted")
               => ~loadingMetrics'
          /\ (~loadingMetrics /\ loadingMetrics')
               => Len(metricsRuns') > Len(metricsRuns)]_vars

\* C24 witness: the request of the run for the first coords was cancelled and
\* the request of the run for the new coords was accepted with the score 74;
\* both have settled and loadingMetrics is false.
C24_Witness ==
    /\ phase = "mounted"
    /\ metricsRuns = <<[st |-> "settled", cancelled |-> TRUE, coords |-> "DEFAULT_COORDS"],
                       [st |-> "settled", cancelled |-> FALSE, coords |-> "nextSpot"]>>
    /\ score = Whole(74)
    /\ ~loadingMetrics

\* in this step the fetch of a run of the forecast effect that is not
\* cleaned up settles
LiveForecastSettles ==
    \E i \in DOMAIN runs :
        /\ ~runs[i].cancelled
        /\ runs[i].st = "pending"
        /\ runs'[i].st = "settled"

\* in this step the getSunsetIndex request of a run of the metrics effect
\* settles
MetricsSettles ==
    \E i \in DOMAIN metricsRuns :
        /\ metricsRuns[i].st = "pending"
        /\ i \in DOMAIN metricsRuns'
        /\ metricsRuns'[i].st = "settled"

\* C25: whenever sunsetScore is non-null, displayScore is
\* clampScore(sunsetScore) and isForecastScore is true, and no sunset-index
\* response changes sunsetScore; whenever sunsetScore is null, the score is
\* not labelled as a forecast and displayScore is clampScore(score), where
\* score is 50 until a sunset-index request has settled; and after a step in
\* which the forecast fetch of the current run fails or yields a body without
\* predicted readings, sunsetScore is null.
C25_ForecastScorePreferred ==
    /\ [](/\ sunsetScore.t # "null" =>
                displayScore = clampScore(sunsetScore) /\ isForecastScore
          /\ sunsetScore.t = "null" =>
                displayScore = clampScore(score) /\ ~isForecastScore
          /\ (\A i \in DOMAIN metricsRuns : metricsRuns[i].st = "pending") =>
                score = Whole(50))
    /\ [][/\ MetricsSettles => sunsetScore' = sunsetScore
          /\ (LiveForecastSettles
                /\ (forecastError'.t # "null" \/ forecast'.t = "null"
                      \/ Nullish(forecast'.predicted)))
               => sunsetScore' = Null]_vars

\* C25 witness: the forecast was accepted and scored 91 and a sunset-index
\* response was accepted with the score 74: the score shown is the forecast
\* score 91, labelled as a forecast.
C25_Witness ==
    /\ phase = "mounted"
    /\ sunsetScore = Whole(91)
    /\ score = Whole(74)
    /\ displayScore = Whole(91)
    /\ isForecastScore
    /\ ~loadingMetrics
    /\ ~loadingForecast

\* in this step the generateCard call of a mounted component settles
GenerateSettles == phase = "mounted" /\ generateCall = "pending" /\ generateCall' = "none"

\* in this step generateCard rejects, or resolves with a body from which no
\* image URL can be built
GenerateFailsNow ==
    /\ phase = "mounted"
    /\ generateCall = "pending"
    /\ \/ GenerateRejects
       \/ \E response \in GenerateBodies :
             /\ Nullish(response) \/ Nullish(resolveImageUrl(response))
             /\ GenerateResolve(response)

\* C27: loadingImage is true exactly while a generateCard call of the mounted
\* component is in flight, so for every outcome it is false once
\* handleGenerate has finished; a step in which generateCard rejects or
\* resolves with a body from which no image URL can be built leaves
\* previewUrl, resp and lastGeneratedAt as they were and sets an error toast;
\* when the API is missing no request is ever in flight, loadingImage is
\* never true, and the click sets an error toast only.
C27_GenerateReleasesAndFailsCleanly ==
    /\ [](/\ phase = "mounted" => (loadingImage <=> generateCall = "pending")
          /\ (phase # "unloaded" /\ apiMissing) =>
                ~loadingImage /\ generateCall = "none" /\ payload = Undefined)
    /\ [][/\ GenerateSettles => ~loadingImage'
          /\ GenerateFailsNow =>
                /\ UNCHANGED <<previewUrl, resp, lastGeneratedAt>>
                /\ toast'.t = "object"
                /\ toast'.tone = "error"
                /\ toast' # toast
          /\ (HandleGenerate /\ apiMissing) =>
                /\ UNCHANGED generateVars
                /\ toast'.t = "object"
                /\ toast'.tone = "error"]_vars

\* C27 witness: a card was generated, then a later generateCard call failed:
\* the preview, resp and the generation time are those of the first card,
\* the error toast is shown and the busy flag is released.
C27_Witness ==
    /\ phase = "mounted"
    /\ previewUrl = Str(<<CDN_BASE_URL, "/", "a.jpg">>)
    /\ resp.t = "object"
    /\ resp.imageUrl = previewUrl
    /\ lastGeneratedAt = Str(<<"now">>)
    /\ toast.t = "object"
    /\ toast.message = MSG_FAILED
    /\ toast.tone = "error"
    /\ ~loadingImage
    /\ generateCall = "none"

\* the object key that the k-th field of a generate-card body yields, in the
\* order objectKey, imageUrl, cloudFrontUrl, s3Url; empty when it yields none
KeyOfField(response, k) ==
    LET derived == CASE k = 1 -> IF Nullish(response.objectKey) THEN Undefined
                                 ELSE Str(StripLeadingSlashes(response.objectKey.s))
                     [] k = 2 -> deriveObjectKeyFromUrl(response.imageUrl)
                     [] k = 3 -> deriveObjectKeyFromUrl(response.cloudFrontUrl)
                     [] k = 4 -> deriveObjectKeyFromUrl(response.s3Url)
    IN IF Nullish(derived) THEN <<>> ELSE derived.s

\* the key of the first field, in priority order, that yields a non-empty key
FirstDerivableKey(response) ==
    IF \A k \in 1..4 : KeyOfField(response, k) = <<>> THEN <<>>
    ELSE KeyOfField(response,
                    CHOOSE k \in 1..4 :
                        /\ KeyOfField(response, k) # <<>>
                        /\ \A j \in 1..(k - 1) : KeyOfField(response, j) = <<>>)

\* u is a URL under the CDN base
UnderCdn(u) == u.t = "string" /\ Len(u.s) > 2 /\ u.s[1] = CDN_BASE_URL /\ u.s[2] = "/"

\* C28 as claimed: whenever the generateCard response has a field among
\* objectKey, imageUrl, cloudFrontUrl and s3Url that yields a non-empty object
\* key, handleGenerate succeeds and sets previewUrl to the CDN base followed
\* by the key of the first such field in that order; and previewUrl is always
\* the sample image or a URL under the CDN base.
C28_FirstDerivableKeyWins ==
    /\ [](previewUrl = DEFAULT_IMAGE \/ UnderCdn(previewUrl))
    /\ [][\A response \in GenerateBodies \ {Null} :
            (phase = "mounted" /\ generateCall = "pending"
                /\ FirstDerivableKey(response) # <<>> /\ GenerateResolve(response))
            => /\ previewUrl' = Str(<<CDN_BASE_URL, "/">> \o FirstDerivableKey(response))
               /\ toast'.tone = "success"]_vars

\* the timer that the toast effect started for the toast shown
OwnTimer == [toast |-> toast.ref, delay |-> TOAST_MS]

InFlight == fetchPc \in {"fetching", "reading"}

\* C26: every doFetch call settles, and when it has settled its timer is no
\* longer armed, whatever the outcome; the timer fires only when the timeout
\* (15000 ms unless the call sets one) has passed with the call in flight,
\* and a call whose timer has fired is aborted and rejects with the timeout
\* message, while no other call does; a call resolves only for a response
\* whose status is ok.
C26_FetchSettlesWithoutTimer ==
    /\ [](fetchPc = "settled" =>
            /\ timeoutId \in {"cleared", "fired"}
            /\ outcome.kind \in {"resolved", "rejected"}
            /\ (timeoutId = "fired" <=> outcome = Rejected(MSG_TIMEOUT))
            /\ (timeoutId = "fired" => aborted /\ elapsed = timeoutOf(options))
            /\ outcome.kind = "resolved" =>
                  httpResponse.t = "object" /\ IsOk(httpResponse.status))
    /\ [](InFlight =>
            /\ Nullish(options.timeoutMs) => timeoutOf(options) = 15000
            /\ timeoutId = "armed" <=> ~aborted)
    /\ [][(timeoutId = "armed" /\ timeoutId' = "fired") =>
             InFlight /\ elapsed >= timeoutOf(options)]_vars
    /\ InFlight ~> (fetchPc = "settled")

\* C26 witness: a call with the default timeout had received the headers of
\* its response but not the whole body when 15000 ms had passed: it was
\* aborted and has rejected with the timeout message.
C26_Witness ==
    /\ fetchPc = "settled"
    /\ Nullish(options.timeoutMs)
    /\ elapsed = TIMEOUT_MS
    /\ httpResponse.t = "object"
    /\ IsOk(httpResponse.status)
    /\ timeoutId = "fired"
    /\ aborted
    /\ outcome = Rejected(MSG_TIMEOUT)

====
